---- MODULE Spec2Model ----
(***************************************************************************)
(* A model of the VFS engine and the answer validation engine of the       *)
(* CyberForensics Arena server.                                            *)
(*                                                                         *)
(* Conventions.                                                            *)
(*  - A JavaScript string that the code inspects character by character    *)
(*    (answers, flags, commands, arguments, paths, names) is a sequence of *)
(*    one-character strings: 'ls /a' is <<"l","s"," ","/","a">>.  A string *)
(*    the code only compares or copies as a whole (checkType, file         *)
(*    contents, titles) is a TLA+ string.                                  *)
(*  - A JavaScript object is a function on the names of the properties it  *)
(*    has: an absent property is a name outside DOMAIN.                    *)
(*  - The pure functions are exercised by a call/ret pair: Init draws the  *)
(*    arguments, the action applies the function.                          *)
(***************************************************************************)
EXTENDS Integers, Sequences, FiniteSets, TLC

VARIABLES
    call,   \* the pending call of a pure function: its name and arguments
    ret,    \* what that call returned, Pending before it ran
    db,     \* the rows of table user_vfs_state
    req,    \* the requests in flight against the VFS store
    bus     \* the client's EventBus: listeners and the emit under way

vars == <<call, ret, db, req, bus>>

\* ------------------------------------------------------------------ bounds

\* Longest answer string drawn over AnswerAlphabet.
MaxAnswerLen == 4

\* Number of requests that run against the VFS store, all possibly at once.
MaxRequests == 2

\* Longest task list of a scenario in the scenarios file.
MaxTasks == 2

\* Longest path string drawn over PathAlphabet, and longest cwd string.
MaxPathLen == 5

MaxCwdLen == 3

\* Number of mounts applied one after the other to the default tree.
MaxMounts == 2

\* Longest command line drawn over TokenAlphabet.
MaxInputLen == 5

\* Number of subscriptions made on the EventBus, and of events emitted.
MaxHandlers == 3

MaxEmits == 2

\* Largest number of earlier wrong attempts passed to calculateScore.
MaxWrongAttempts == 7

\* ----------------------------------------------------------------- strings

Pending == [pending |-> TRUE]

NoCall == [fn |-> "none"]

RECURSIVE StringsUpTo(_, _)
\* All sequences over alphabet of length at most n.
StringsUpTo(alphabet, n) ==
    IF n = 0 THEN {<<>>}
    ELSE LET shorter == StringsUpTo(alphabet, n - 1)
         IN  shorter \cup {Append(s, c) : s \in shorter, c \in alphabet}

\* String.prototype.startsWith
startsWith(s, prefix) ==
    /\ Len(s) >= Len(prefix)
    /\ SubSeq(s, 1, Len(prefix)) = prefix

\* String.prototype.substring(from) with a 0-based from index
substring(s, from) == SubSeq(s, from + 1, Len(s))

\* The characters String.prototype.trim removes (those the model draws).
WhiteSpace == {" ", "\t", "\n"}

RECURSIVE trimStart(_)
trimStart(s) ==
    IF s # <<>> /\ Head(s) \in WhiteSpace THEN trimStart(Tail(s)) ELSE s

RECURSIVE trimEnd(_)
trimEnd(s) ==
    IF s # <<>> /\ s[Len(s)] \in WhiteSpace
    THEN trimEnd(SubSeq(s, 1, Len(s) - 1))
    ELSE s

\* String.prototype.trim
trim(s) == trimEnd(trimStart(s))

\* The lower-case form of one character (of those the model draws).
lowerChar(c) ==
    CASE c = "A" -> "a"
      [] c = "F" -> "f"
      [] c = "I" -> "i"
      [] OTHER   -> c

\* String.prototype.toLowerCase
toLowerCase(s) == [i \in 1..Len(s) |-> lowerChar(s[i])]

\* A JavaScript value is truthy: a property that is present and, for a
\* string, not empty.  (Arrays and objects are truthy even when empty.)
TruthyString(obj, field) == field \in DOMAIN obj /\ obj[field] # <<>>

\* --------------------------------------------------------- CommandTokenizer

RECURSIVE scanVariant(_, _, _, _, _, _, _)
\* Variants of the loop of parseCommandArgs.  "pushEmpty": a space ends a
\* token even when nothing was read.  "anyQuote": either quote character
\* closes an open quote.  "dropOpen": what was read is dropped at the end
\* of the input when a quote is open.
scanVariant(variant, input, i, args, current, inQuote, quoteChar) ==
    IF i > Len(input)
    THEN IF current # <<>> /\ ~(variant = "dropOpen" /\ inQuote)
         THEN Append(args, current) ELSE args
    ELSE
      LET char == input[i] IN
      IF (char = "\"" \/ char = "'")
            /\ (~inQuote \/ quoteChar = char \/ variant = "anyQuote")
      THEN IF inQuote
           THEN scanVariant(variant, input, i + 1, args, current, FALSE, "")
           ELSE scanVariant(variant, input, i + 1, args, current, TRUE, char)
      ELSE IF char = " " /\ ~inQuote
      THEN IF current # <<>> \/ variant = "pushEmpty"
           THEN scanVariant(variant, input, i + 1, Append(args, current),
                            <<>>, inQuote, quoteChar)
           ELSE scanVariant(variant, input, i + 1, args, current, inQuote,
                            quoteChar)
      ELSE scanVariant(variant, input, i + 1, args, Append(current, char),
                       inQuote, quoteChar)

parseScanPushingEmpty(input, i, args, current, inQuote, quoteChar) ==
    scanVariant("pushEmpty", input, i, args, current, inQuote, quoteChar)

parseScanAnyQuoteCloses(input, i, args, current, inQuote, quoteChar) ==
    scanVariant("anyQuote", input, i, args, current, inQuote, quoteChar)

parseScanDroppingOpenQuote(input, i, args, current, inQuote, quoteChar) ==
    scanVariant("dropOpen", input, i, args, current, inQuote, quoteChar)

RECURSIVE wordsFrom(_, _, _, _)
\* The words of input from index i on, cut at every space.
wordsFrom(input, i, args, current) ==
    IF i > Len(input)
    THEN IF current # <<>> THEN Append(args, current) ELSE args
    ELSE IF input[i] = " "
    THEN wordsFrom(input, i + 1,
                   IF current # <<>> THEN Append(args, current) ELSE args,
                   <<>>)
    ELSE wordsFrom(input, i + 1, args, Append(current, input[i]))

\* A variant of parseCommandArgs that cuts at every space and keeps the
\* quote characters.
splitAtSpaces(input) == wordsFrom(input, 1, <<>>, <<>>)

RECURSIVE parseScan(_, _, _, _, _, _)
\* The for loop of parseCommandArgs from index i (1-based) on, and the final
\* flush.
parseScan(input, i, args, current, inQuote, quoteChar) ==
    IF i > Len(input)
    THEN IF current # <<>> THEN Append(args, current) ELSE args
    ELSE
      LET char == input[i] IN
      IF (char = "\"" \/ char = "'") /\ (~inQuote \/ quoteChar = char)
      THEN IF inQuote /\ quoteChar = char
           THEN parseScan(input, i + 1, args, current, FALSE, "")
           ELSE IF ~inQuote
           THEN parseScan(input, i + 1, args, current, TRUE, char)
           ELSE parseScan(input, i + 1, args, Append(current, char),
                          inQuote, quoteChar)
      ELSE IF char = " " /\ ~inQuote
      THEN IF current # <<>>
           THEN parseScan(input, i + 1, Append(args, current), <<>>,
                          inQuote, quoteChar)
           ELSE parseScan(input, i + 1, args, current, inQuote, quoteChar)
      ELSE parseScan(input, i + 1, args, Append(current, char),
                     inQuote, quoteChar)

parseCommandArgs(input) == parseScan(input, 1, <<>>, <<>>, FALSE, "")

\* ---------------------------------------------------------- AnswerValidator

\* A variant of replaceTrailingSlash that strips every trailing slash, as
\* arg.replace(/\/+$/, '') would.
RECURSIVE replaceAllTrailingSlashes(_)
replaceAllTrailingSlashes(arg) ==
    IF arg # <<>> /\ arg[Len(arg)] = "/"
    THEN replaceAllTrailingSlashes(SubSeq(arg, 1, Len(arg) - 1))
    ELSE arg

\* arg.replace(/\/$/, ''): the first match of a '/' that ends the string is
\* removed, so at most one trailing slash goes.
replaceTrailingSlash(arg) ==
    IF arg # <<>> /\ arg[Len(arg)] = "/"
    THEN SubSeq(arg, 1, Len(arg) - 1)
    ELSE arg

InteractionPrefix == <<"i","n","t","e","r","a","c","t","i","o","n",":">>

\* A variant of interactionCheck that trims and lower-cases both sides, as
\* the flag branch does.
interactionCheckNormalized(task, answer) ==
    IF /\ startsWith(answer, InteractionPrefix)
       /\ toLowerCase(trim(substring(answer, Len(InteractionPrefix))))
              = toLowerCase(trim(task.interactionTarget))
    THEN [correct |-> TRUE]
    ELSE [correct |-> FALSE]

\* The body of the interaction branch.
interactionCheck(task, answer) ==
    IF /\ startsWith(answer, InteractionPrefix)
       /\ substring(answer, Len(InteractionPrefix)) = task.interactionTarget
    THEN [correct |-> TRUE]
    ELSE [correct |-> FALSE]

\* A variant of flagCheck that lower-cases without trimming.
flagCheckNoTrim(task, answer) ==
    [correct |-> toLowerCase(answer) = toLowerCase(task.solutionValue)]

\* The body of the flag branch.
flagCheck(task, answer) ==
    LET normalizedAnswer   == toLowerCase(trim(answer))
        normalizedSolution == toLowerCase(trim(task.solutionValue))
    IN  [correct |-> normalizedAnswer = normalizedSolution]

\* The body of the console command branch.
commandCheck(task, answer) ==
    LET parsedArgs == parseCommandArgs(answer) IN
    IF Len(parsedArgs) = 0 THEN [correct |-> FALSE]
    ELSE
      LET cmd  == parsedArgs[1]
          args == SubSeq(parsedArgs, 2, Len(parsedArgs))
      IN
      IF cmd # task.checkCommand THEN [correct |-> FALSE]
      ELSE IF "checkArgs" \in DOMAIN task /\ Len(task.checkArgs) > 0
      THEN LET normalizedArgs ==
                   [i \in 1..Len(args) |-> replaceTrailingSlash(args[i])]
               normalizedExpected ==
                   [i \in 1..Len(task.checkArgs) |->
                        replaceTrailingSlash(task.checkArgs[i])]
           IN
           IF Len(normalizedArgs) # Len(normalizedExpected)
           THEN [correct |-> FALSE]
           ELSE IF \E i \in 1..Len(normalizedArgs) :
                       normalizedArgs[i] # normalizedExpected[i]
           THEN [correct |-> FALSE]
           ELSE [correct |-> TRUE]
      ELSE IF Len(args) > 0 THEN [correct |-> FALSE]
      ELSE [correct |-> TRUE]

\* A variant of validateAnswer whose flag branch forgets to test checkType.
validateAnswerFlagAnyType(task, answer) ==
    IF /\ "checkType" \in DOMAIN task
       /\ task.checkType = "interaction"
       /\ TruthyString(task, "interactionTarget")
    THEN interactionCheck(task, answer)
    ELSE IF TruthyString(task, "solutionValue")
    THEN flagCheck(task, answer)
    ELSE IF TruthyString(task, "checkCommand")
    THEN commandCheck(task, answer)
    ELSE [correct |-> FALSE]

\* A variant of validateAnswer that tries the command branch first.
validateAnswerCommandFirst(task, answer) ==
    IF TruthyString(task, "checkCommand")
    THEN commandCheck(task, answer)
    ELSE IF /\ "checkType" \in DOMAIN task
            /\ task.checkType = "interaction"
            /\ TruthyString(task, "interactionTarget")
    THEN interactionCheck(task, answer)
    ELSE IF /\ "checkType" \in DOMAIN task
            /\ task.checkType = "flag"
            /\ TruthyString(task, "solutionValue")
    THEN flagCheck(task, answer)
    ELSE [correct |-> FALSE]

validateAnswer(task, answer) ==
    IF /\ "checkType" \in DOMAIN task
       /\ task.checkType = "interaction"
       /\ TruthyString(task, "interactionTarget")
    THEN interactionCheck(task, answer)
    ELSE IF /\ "checkType" \in DOMAIN task
            /\ task.checkType = "flag"
            /\ TruthyString(task, "solutionValue")
    THEN flagCheck(task, answer)
    ELSE IF TruthyString(task, "checkCommand")
    THEN commandCheck(task, answer)
    ELSE [correct |-> FALSE]

\* ------------------------------------------------- inputs of validateAnswer

\* An optional property: opt is the empty set (absent) or a singleton.
Property(name, opt) ==
    [f \in (IF opt = {} THEN {} ELSE {name}) |-> CHOOSE v \in opt : TRUE]

Optional(values) == {{}} \cup {{v} : v \in values}

CheckTypes == {"interaction", "flag", "command", "quiz"}

InteractionTargets == {<<>>, <<"a">>, <<"a", "A">>}

SolutionValues == {<<>>, <<" ", "A", "/">>}

CheckCommands == {<<"a">>}

CheckArgsValues ==
    { <<>>, << <<"a">> >>, << <<"a", "/">> >>, << <<"a", "/", "/">> >>,
      << <<"a">>, <<"/">> >> }

\* What a task says about its command: nothing, checkArgs alone, or a
\* checkCommand with or without checkArgs.
CommandParts ==
    {Property("checkCommand", {}) @@ Property("checkArgs", ca) :
        ca \in {{}, {<< <<"a">> >>}}}
    \cup
    {Property("checkCommand", {cc}) @@ Property("checkArgs", ca) :
        cc \in CheckCommands, ca \in Optional(CheckArgsValues)}

Tasks ==
    { Property("checkType", ct) @@ Property("interactionTarget", it)
        @@ Property("solutionValue", sv) @@ cp :
        ct \in Optional(CheckTypes), it \in Optional(InteractionTargets),
        sv \in Optional(SolutionValues), cp \in CommandParts }

AnswerAlphabet == {"a", "A", " ", "/"}

\* Answers that start like an interaction tag, in three spellings.
InteractionAnswers ==
    { p \o s :
        p \in { InteractionPrefix,
                SubSeq(InteractionPrefix, 1, Len(InteractionPrefix) - 1),
                <<"I">> \o Tail(InteractionPrefix) },
        s \in StringsUpTo(AnswerAlphabet, 2) }

\* Answers with quotes, tabs, a second argument or a doubled slash.
LongAnswers ==
    { <<"a", " ", "a", " ", "a">>, <<"a", " ", "a", " ", "/", "/">>,
      <<"a", " ", "a", "/", "/">>, <<"a", " ", "a", "/", " ", "/">>,
      <<"\"", "a", "\"", " ", "a">>, <<"a", " ", "'", "a", "/", "'">>,
      <<"\"", "a", " ", "a", "\"">>,
      <<"\t", "a", "/", "\n">>, <<"\t", " ", "A", "/", " ", "\n">>,
      <<" ", "a", " ", "/">>, <<"a", "\t", "a">> }

Answers ==
    StringsUpTo(AnswerAlphabet, MaxAnswerLen)
        \cup InteractionAnswers \cup LongAnswers

\* ------------------------------------------------------------ idle values

IdleStore == db = <<>> /\ req = <<>>

\* No EventBus is in use: the state of a server-side specification.
IdleBus == bus = <<>>

\* ----------------------------------------------- specification: validation

ValidateInit ==
    /\ call \in [fn : {"validateAnswer"}, task : Tasks, answer : Answers]
    /\ ret = Pending
    /\ IdleStore
    /\ IdleBus

\* validateAnswer(task, answer) runs and returns its verdict.
ValidateAnswer ==
    /\ call.fn = "validateAnswer"
    /\ ret = Pending
    /\ ret' = validateAnswer(call.task, call.answer)
    /\ UNCHANGED <<call, db, req, bus>>

ValidateNext == ValidateAnswer

ValidateSpec == ValidateInit /\ [][ValidateNext]_vars

\* ------------------------------------------------- claims about validation

ValidateDone == call.fn = "validateAnswer" /\ ret # Pending

\* The task selects the interaction rule, the flag rule, the command rule.
IsInteractionTask(t) ==
    /\ "checkType" \in DOMAIN t /\ t.checkType = "interaction"
    /\ "interactionTarget" \in DOMAIN t /\ t.interactionTarget # <<>>

IsFlagTask(t) ==
    /\ "checkType" \in DOMAIN t /\ t.checkType = "flag"
    /\ "solutionValue" \in DOMAIN t /\ t.solutionValue # <<>>

HasCheckCommand(t) == "checkCommand" \in DOMAIN t /\ t.checkCommand # <<>>

IsCommandTask(t) ==
    ~IsInteractionTask(t) /\ ~IsFlagTask(t) /\ HasCheckCommand(t)

\* checkType is given and is none of the three known types.
UnknownCheckType(t) ==
    "checkType" \in DOMAIN t
        /\ t.checkType \notin {"interaction", "flag", "command"}

\* checkType is unknown or not given at all.
NoKnownCheckType(t) == "checkType" \notin DOMAIN t \/ UnknownCheckType(t)

C2_FirstMatchingBranchDecides ==
    ValidateDone =>
        LET t == call.task IN
        /\ IsInteractionTask(t) => ret = interactionCheck(t, call.answer)
        /\ (~IsInteractionTask(t) /\ IsFlagTask(t))
               => ret = flagCheck(t, call.answer)
        /\ (~IsInteractionTask(t) /\ ~IsFlagTask(t) /\ ~HasCheckCommand(t))
               => ret.correct = FALSE

\* An interaction task that also carries a checkCommand, and an answer the
\* command rule accepts: rejected.
C2_Witness ==
    /\ ValidateDone
    /\ IsInteractionTask(call.task)
    /\ HasCheckCommand(call.task)
    /\ "solutionValue" \in DOMAIN call.task
    /\ commandCheck(call.task, call.answer).correct
    /\ ret.correct = FALSE

\* The string without its last character when that is a '/'.
DropOneSlash(s) ==
    IF Len(s) >= 1 /\ s[Len(s)] = "/" THEN [i \in 1..(Len(s) - 1) |-> s[i]]
    ELSE s

\* The arguments a task expects: none when checkArgs is absent.
ExpectedArgs(t) == IF "checkArgs" \in DOMAIN t THEN t.checkArgs ELSE <<>>

\* C3: in the command check the answer is correct iff its token sequence is
\* not empty, its first token is checkCommand, and the other tokens equal
\* checkArgs in number and, position by position, up to one trailing '/'.
C3_CommandCheck ==
    (ValidateDone /\ IsCommandTask(call.task)) =>
        LET t        == call.task
            tokens   == parseCommandArgs(call.answer)
            expected == ExpectedArgs(t)
        IN  ret.correct <=>
              /\ Len(tokens) >= 1
              /\ tokens[1] = t.checkCommand
              /\ Len(tokens) - 1 = Len(expected)
              /\ \A i \in 1..Len(expected) :
                     DropOneSlash(tokens[i + 1]) = DropOneSlash(expected[i])

\* 'a a/' is accepted by the task {checkCommand: 'a', checkArgs: ['a']}.
C3_Witness ==
    /\ ValidateDone
    /\ IsCommandTask(call.task)
    /\ call.task.checkCommand = <<"a">>
    /\ "checkArgs" \in DOMAIN call.task
    /\ call.task.checkArgs = << <<"a">> >>
    /\ call.answer = <<"a", " ", "a", "/">>
    /\ ret.correct = TRUE

\* The string between its first and its last character that is no white
\* space, lower-cased.
FlagNormalForm(s) ==
    LET keep == {i \in 1..Len(s) : s[i] \notin WhiteSpace} IN
    IF keep = {} THEN <<>>
    ELSE LET first == CHOOSE i \in keep : \A j \in keep : i <= j
             last  == CHOOSE i \in keep : \A j \in keep : j <= i
         IN  [i \in 1..(last - first + 1) |-> lowerChar(s[first + i - 1])]

\* C4: in the flag check the answer is correct iff it equals solutionValue
\* once both are stripped of leading and trailing white space and
\* lower-cased; nothing else is normalized.
C4_FlagCheck ==
    (ValidateDone /\ IsFlagTask(call.task)) =>
        (ret.correct <=>
            FlagNormalForm(call.answer)
                = FlagNormalForm(call.task.solutionValue))

\* The flag ' A/' is matched by the answer 'a/ ' (other case and padding).
C4_Witness ==
    /\ ValidateDone
    /\ IsFlagTask(call.task)
    /\ call.task.solutionValue = <<" ", "A", "/">>
    /\ call.answer = <<"a", "/", " ">>
    /\ ret.correct = TRUE

\* C5: in the interaction check the answer is correct iff it is exactly
\* 'interaction:' followed by interactionTarget.
C5_InteractionCheck ==
    (ValidateDone /\ IsInteractionTask(call.task)) =>
        (ret.correct <=>
            call.answer = InteractionPrefix \o call.task.interactionTarget)

\* The target 'aA' is matched by 'interaction:aA'.
C5_Witness ==
    /\ ValidateDone
    /\ IsInteractionTask(call.task)
    /\ call.task.interactionTarget = <<"a", "A">>
    /\ call.answer = InteractionPrefix \o <<"a", "A">>
    /\ ret.correct = TRUE

\* ---------------------------------------------------------- ScoreCalculator

\* A variant of calculateScore that takes ten points off per wrong attempt.
calculateScoreDecay(task, isCorrect, wrongAttempts) ==
    IF ~isCorrect THEN 0
    ELSE IF "points" \in DOMAIN task /\ task.points - 10 * wrongAttempts > 0
    THEN task.points - 10 * wrongAttempts
    ELSE 0

\* task.points || 0: an absent or zero points counts 0.
calculateScore(task, isCorrect, wrongAttempts) ==
    IF ~isCorrect THEN 0
    ELSE IF "points" \in DOMAIN task /\ task.points # 0 THEN task.points
    ELSE 0

PointsValues == {0, 10, 50, 100}

ScoreTasks == {Property("points", p) : p \in Optional(PointsValues)}

ScoreInit ==
    /\ call \in [fn : {"calculateScore"}, task : ScoreTasks,
                 isCorrect : BOOLEAN, wrongAttempts : 0..MaxWrongAttempts]
    /\ ret = Pending
    /\ IdleStore
    /\ IdleBus

\* calculateScore(task, isCorrect, wrongAttempts) runs; isCorrect is the
\* verdict's correct field.
CalculateScore ==
    /\ call.fn = "calculateScore"
    /\ ret = Pending
    /\ ret' = [value |->
                 calculateScore(call.task, call.isCorrect, call.wrongAttempts)]
    /\ UNCHANGED <<call, db, req, bus>>

ScoreNext == CalculateScore

ScoreSpec == ScoreInit /\ [][ScoreNext]_vars

ScoreDone == call.fn = "calculateScore" /\ ret # Pending

\* C7: the score is 0 for an incorrect verdict and task.points (0 when
\* unset) for a correct one, whatever the number of wrong attempts.
C7_FlatScore ==
    ScoreDone =>
        ret.value =
            IF ~call.isCorrect THEN 0
            ELSE IF "points" \in DOMAIN call.task THEN call.task.points
            ELSE 0

\* score({points: 50}, correct, 7) = 50.
C7_Witness ==
    /\ ScoreDone
    /\ call.isCorrect
    /\ "points" \in DOMAIN call.task /\ call.task.points = 50
    /\ call.wrongAttempts = 7
    /\ ret.value = 50

\* ---------------------------------------------------- GET /api/scenarios

\* JSON values of the scenarios file and of the response, tagged with their
\* JavaScript type.
Null == [type |-> "null"]

Str(s) == [type |-> "string", value |-> s]

Num(n) == [type |-> "number", value |-> n]

Arr(a) == [type |-> "array", value |-> a]

Obj(o) == [type |-> "object", value |-> o]

Truthy(v) ==
    CASE v.type = "null"   -> FALSE
      [] v.type = "string" -> v.value # ""
      [] v.type = "number" -> v.value # 0
      [] OTHER             -> TRUE

\* obj[field] || default
OrElse(obj, field, default) ==
    IF field \in DOMAIN obj /\ Truthy(obj[field]) THEN obj[field]
    ELSE default

\* A variant of publicTask that copies solutionValue like the other fields.
publicTaskWithSolution(task) ==
    [ id                |-> task.id,
      title             |-> OrElse(task, "title", Str("")),
      details           |-> OrElse(task, "details", Str("")),
      points            |-> OrElse(task, "points", Num(0)),
      checkType         |-> OrElse(task, "checkType", Null),
      interactionTarget |-> OrElse(task, "interactionTarget", Null),
      onInteract        |-> OrElse(task, "onInteract", Null),
      hintCost          |-> OrElse(task, "hintCost", Num(0)),
      checkCommand      |-> OrElse(task, "checkCommand", Null),
      checkArgs         |-> OrElse(task, "checkArgs", Null),
      solutionValue     |-> OrElse(task, "solutionValue", Null) ]

\* The object the route builds for one task.
publicTask(task) ==
    [ id                |-> task.id,
      title             |-> OrElse(task, "title", Str("")),
      details           |-> OrElse(task, "details", Str("")),
      points            |-> OrElse(task, "points", Num(0)),
      checkType         |-> OrElse(task, "checkType", Null),
      interactionTarget |-> OrElse(task, "interactionTarget", Null),
      onInteract        |-> OrElse(task, "onInteract", Null),
      hintCost          |-> OrElse(task, "hintCost", Num(0)),
      checkCommand      |-> OrElse(task, "checkCommand", Null),
      checkArgs         |-> OrElse(task, "checkArgs", Null) ]

\* The object the route builds for the scenario stored under key.
publicScenario(key, scenario) ==
    [ id                  |-> key,
      title               |-> OrElse(scenario, "title", Str(key)),
      description         |-> OrElse(scenario, "description", Str("")),
      introduction        |-> OrElse(scenario, "introduction", Str("")),
      badge               |-> OrElse(scenario, "badge", Null),
      interactableObjects |-> OrElse(scenario, "interactableObjects",
                                     Arr(<<>>)),
      customCommands      |-> OrElse(scenario, "customCommands", Arr(<<>>)),
      tasks               |->
          LET tasks == IF "tasks" \in DOMAIN scenario THEN scenario.tasks
                       ELSE <<>>
          IN  [i \in 1..Len(tasks) |-> publicTask(tasks[i])] ]

\* The handler of GET /api/scenarios: the response for a scenarios file.
\* A missing file throws, and the catch answers 500 without scenario data.
getScenarios(file) ==
    IF ~file.exists
    THEN [status |-> 500, body |-> [error |-> "Failed to load scenarios"]]
    ELSE LET scenariosData == file.data
             publicKeys ==
                 {key \in DOMAIN scenariosData : ~startsWith(key, <<"_">>)}
         IN  [status |-> 200,
              body   |-> [key \in publicKeys |->
                             publicScenario(key, scenariosData[key])]]

\* ------------------------------------------------ inputs of the listing

\* The tasks of the scenarios file: those that differ in the fields a task
\* is checked by and in its hint.
FileTasks ==
    { [id |-> Str("t1"), title |-> Str("Mount the disk"), points |-> Num(50)]
        @@ Property("checkType", ct) @@ Property("solutionValue", sv)
        @@ Property("hint", h) @@ Property("checkCommand", cc)
        @@ Property("checkArgs", ca) :
        ct \in Optional({Str("flag"), Str("command")}),
        sv \in Optional({Str("FLAG{x}")}),
        h  \in Optional({Str("look under /mnt")}),
        cc \in Optional({Str("mount")}),
        ca \in Optional({Arr(<<"/mnt/usb">>)}) }

TaskLists == UNION {[1..n -> FileTasks] : n \in 0..MaxTasks}

FileScenarios ==
    {[description |-> Str("no task list")]}
        \cup {[title |-> Str("Disk forensics"), tasks |-> ts] : ts \in TaskLists}

\* A key the listing hides, with a scenario that carries a solution.
HiddenScenario ==
    [ tasks |-> << [id |-> Str("t0"), solutionValue |-> Str("FLAG{t}"),
                    hint |-> Str("template hint")] >> ]

ScenarioFiles ==
    {[exists |-> FALSE]}
        \cup { [exists |-> TRUE,
                data   |-> (<<"_", "t">> :> HiddenScenario)
                             @@ (<<"s", "1">> :> sc)] : sc \in FileScenarios }

ListingInit ==
    /\ call \in [fn : {"getScenarios"}, file : ScenarioFiles]
    /\ ret = Pending
    /\ IdleStore
    /\ IdleBus

\* The route answers one GET /api/scenarios.
GetScenarios ==
    /\ call.fn = "getScenarios"
    /\ ret = Pending
    /\ ret' = getScenarios(call.file)
    /\ UNCHANGED <<call, db, req, bus>>

ListingNext == GetScenarios

ListingSpec == ListingInit /\ [][ListingNext]_vars

\* ------------------------------------------------- claims about the listing

ListingDone == call.fn = "getScenarios" /\ ret # Pending

\* The tasks of a successful response, each with the task of the file it
\* was built from.
ListedTasks ==
    IF ret.status # 200 THEN {}
    ELSE UNION { { [public |-> ret.body[key].tasks[i],
                    stored |-> call.file.data[key].tasks[i]] :
                      i \in 1..Len(ret.body[key].tasks) } :
                 key \in DOMAIN ret.body }

\* The response says nothing about field f of a task.
Omitted(public, f) == f \notin DOMAIN public \/ public[f] = Null

\* The scenarios file without the solutionValue and the hint of any task.
EraseTask(task) ==
    [f \in DOMAIN task \ {"solutionValue", "hint"} |-> task[f]]

EraseScenario(scenario) ==
    IF "tasks" \in DOMAIN scenario
    THEN [scenario EXCEPT !.tasks = [i \in 1..Len(@) |-> EraseTask(@[i])]]
    ELSE scenario

EraseFile(file) ==
    IF ~file.exists THEN file
    ELSE [file EXCEPT !.data = [key \in DOMAIN @ |-> EraseScenario(@[key])]]

RECURSIVE splitFrom(_, _, _)
\* String.prototype.split(sep) for a one-character separator: the pieces
\* of s after the piece current that is being read.
splitFrom(s, sep, current) ==
    IF s = <<>> THEN <<current>>
    ELSE IF Head(s) = sep
    THEN <<current>> \o splitFrom(Tail(s), sep, <<>>)
    ELSE splitFrom(Tail(s), sep, Append(current, Head(s)))

split(s, sep) == splitFrom(s, sep, <<>>)

\* A variant of filterBoolean that keeps the empty strings.
filterNothing(parts) == SelectSeq(parts, LAMBDA part : TRUE)

\* Array.prototype.filter(Boolean) on strings: the empty ones go.
filterBoolean(parts) == SelectSeq(parts, LAMBDA part : part # <<>>)

RECURSIVE join(_, _)
\* Array.prototype.join(sep)
join(parts, sep) ==
    IF parts = <<>> THEN <<>>
    ELSE IF Len(parts) = 1 THEN parts[1]
    ELSE parts[1] \o <<sep>> \o join(Tail(parts), sep)

\* A variant of pop that keeps a '..' segment when the array is empty.
popKeepingDotDot(stack) ==
    IF stack = <<>> THEN <<(<<".", ".">>)>>
    ELSE SubSeq(stack, 1, Len(stack) - 1)

\* Array.prototype.pop: nothing happens on an empty array.
pop(stack) ==
    IF stack = <<>> THEN stack ELSE SubSeq(stack, 1, Len(stack) - 1)

RECURSIVE normalizeLoop(_, _)
\* The for loop of normalizePath over the segments left.
normalizeLoop(parts, stack) ==
    IF parts = <<>> THEN stack
    ELSE LET seg == Head(parts) IN
         IF seg = <<".", ".">> THEN normalizeLoop(Tail(parts), pop(stack))
         ELSE IF seg # <<".">>
         THEN normalizeLoop(Tail(parts), Append(stack, seg))
         ELSE normalizeLoop(Tail(parts), stack)

normalizePath(path) ==
    LET parts == filterBoolean(split(path, "/"))
        stack == normalizeLoop(parts, <<>>)
    IN  <<"/">> \o join(stack, "/")

RECURSIVE resolveLoop(_, _)
\* The for loop of resolvePath over the segments left.
resolveLoop(segments, parts) ==
    IF segments = <<>> THEN parts
    ELSE LET seg == Head(segments) IN
         IF seg = <<".", ".">> THEN resolveLoop(Tail(segments), pop(parts))
         ELSE IF seg # <<>> /\ seg # <<".">>
         THEN resolveLoop(Tail(segments), Append(parts, seg))
         ELSE resolveLoop(Tail(segments), parts)

\* A variant of resolvePath that takes every path as relative to cwd.
resolvePathUnderCwd(path, cwd) ==
    LET parts    == filterBoolean(split(cwd, "/"))
        segments == split(path, "/")
    IN  <<"/">> \o join(resolveLoop(segments, parts), "/")

resolvePath(path, cwd) ==
    IF startsWith(path, <<"/">>) THEN normalizePath(path)
    ELSE LET parts    == filterBoolean(split(cwd, "/"))
             segments == split(path, "/")
         IN  <<"/">> \o join(resolveLoop(segments, parts), "/")

\* ---------------------------------------------------- inputs of the paths

PathAlphabet == {"/", ".", "a"}

\* The path strings the model draws, and the shorter cwd strings.
Paths == StringsUpTo(PathAlphabet, MaxPathLen)

Cwds == StringsUpTo(PathAlphabet, MaxCwdLen)

PathCalls ==
    {[fn |-> "normalizePath", path |-> p] : p \in Paths}
        \cup {[fn |-> "resolvePath", path |-> p, cwd |-> c] :
                  p \in Paths, c \in Cwds}

PathInit ==
    /\ call \in PathCalls
    /\ ret = Pending
    /\ IdleStore
    /\ IdleBus

NormalizePath ==
    /\ ret = Pending
    /\ call.fn = "normalizePath"
    /\ ret' = [value |-> normalizePath(call.path)]
    /\ UNCHANGED <<call, db, req, bus>>

ResolvePath ==
    /\ ret = Pending
    /\ call.fn = "resolvePath"
    /\ ret' = [value |-> resolvePath(call.path, call.cwd)]
    /\ UNCHANGED <<call, db, req, bus>>

PathNext == NormalizePath \/ ResolvePath

PathSpec == PathInit /\ [][PathNext]_vars

\* ----------------------------------------------------------------- VfsTree

\* A node is an object with a type and, as the code sets them, children (an
\* object from names to nodes) and content.
NoChildren == [name \in {} |-> name]

Dir(children) == [type |-> "dir", children |-> children]

File(content) == [type |-> "file", content |-> content]

\* A variant of DefaultVFS with a file under the evidence directory.
DefaultVFSWithEvidence ==
    Dir( (<<"h", "o", "m", "e">> :> Dir(<<"u", "s", "e", "r">> :> Dir(NoChildren)))
         @@ (<<"e", "v", "i", "d", "e", "n", "c", "e">> :>
                 Dir(<<"d", "i", "s", "k", ".", "i", "m", "g">> :> File("disk image")))
         @@ (<<"m", "n", "t">> :> Dir(NoChildren)) )

\* The default structure initializeVFS creates.
DefaultVFS ==
    Dir( (<<"h", "o", "m", "e">> :> Dir(<<"u", "s", "e", "r">> :> Dir(<<"R", "E", "A", "D", "M", "E", ".", "t", "x", "t">> :> File(
              "Welcome to the Forensic Shell.\nExplore the file system and complete the tasks."))))
         @@ (<<"e", "v", "i", "d", "e", "n", "c", "e">> :> Dir(NoChildren))
         @@ (<<"c", "a", "p", "t", "u", "r", "e", "s">> :> Dir(NoChildren))
         @@ (<<"m", "e", "m", "o", "r", "y">> :> Dir(NoChildren))
         @@ (<<"m", "n", "t">> :> Dir(NoChildren))
         @@ (<<"t", "m", "p">> :> Dir(NoChildren))
         @@ (<<"v", "a", "r">> :> Dir(<<"l", "o", "g">> :> Dir(NoChildren))) )

DefaultCwd == <<"/", "h", "o", "m", "e", "/", "u", "s", "e", "r">>

\* A children object is a plain object: reading children[part] also finds
\* the properties every object inherits from Object.prototype (those the
\* model draws).  Such a value is no node: it has no type, children or
\* content of its own.
NameConstructor == <<"c", "o", "n", "s", "t", "r", "u", "c", "t", "o", "r">>

ObjectPrototypeNames == {NameConstructor}

Inherited(name) == [type |-> "undefined", inherited |-> name]

\* children[part] is truthy.
HasProperty(children, part) ==
    part \in DOMAIN children \/ part \in ObjectPrototypeNames

\* children[part], for a part that HasProperty.
GetProperty(children, part) ==
    IF part \in DOMAIN children THEN children[part] ELSE Inherited(part)

\* typeof data === 'string' ? data : JSON.stringify(data), for the strings
\* and numbers the model mounts.
contentText(data) ==
    IF data.type = "string" THEN data.value ELSE ToString(data.value)

\* A variant of addFiles that replaces the children of the mount directory
\* by the files of content.
addFilesReplacing(current, content) ==
    IF content.type # "null" /\ "children" \in DOMAIN current
    THEN [current EXCEPT !.children =
              [name \in DOMAIN content.value |->
                   File(contentText(content.value[name]))]]
    ELSE current

\* The "Add files" part of mountContent on the node the walk ended at:
\* nothing is added when content is null or the node has no children.
addFiles(current, content) ==
    IF content.type # "null" /\ "children" \in DOMAIN current
    THEN [current EXCEPT !.children =
              [name \in DOMAIN content.value |->
                   File(contentText(content.value[name]))] @@ @]
    ELSE current

RECURSIVE newDirectories(_, _)
\* New directories for pathParts, one in the other, with the files of
\* content in the last.
newDirectories(pathParts, content) ==
    IF pathParts = <<>> THEN addFiles(Dir(NoChildren), content)
    ELSE Dir(Head(pathParts) :> newDirectories(Tail(pathParts), content))

\* A variant of mountWalk that puts a new directory in place of the one
\* the path names, whether it exists or not.
mountWalkReplacing(current, pathParts, content) ==
    IF pathParts = <<>> THEN addFiles(current, content)
    ELSE
      LET withChildren ==
              IF "children" \in DOMAIN current THEN current
              ELSE current @@ [children |-> NoChildren]
      IN  [withChildren EXCEPT !.children =
               (Head(pathParts) :>
                    newDirectories(Tail(pathParts), content)) @@ @]

RECURSIVE mountWalk(_, _, _)
\* The "Create directory structure" loop of mountContent from node current
\* on, followed by the "Add files" part; the result is current as mutated.
mountWalk(current, pathParts, content) ==
    IF pathParts = <<>> THEN addFiles(current, content)
    ELSE
      LET part == Head(pathParts)
          withChildren ==
              IF "children" \in DOMAIN current THEN current
              ELSE current @@ [children |-> NoChildren]
          child ==
              IF part \in DOMAIN withChildren.children
              THEN withChildren.children[part]
              ELSE Dir(NoChildren)
      IN  IF part \notin DOMAIN withChildren.children
                /\ part \in ObjectPrototypeNames
          THEN withChildren    \* the walk goes on outside the tree
          ELSE [withChildren EXCEPT !.children =
                    (part :> mountWalk(child, Tail(pathParts), content)) @@ @]

\* A variant of mountContent that mounts on a new default structure.
mountContentOnDefault(vfs, mountPath, content) ==
    mountWalk(DefaultVFS, filterBoolean(split(mountPath, "/")), content)

\* mountContent mutates vfs in place; this is vfs after the call.
mountContent(vfs, mountPath, content) ==
    mountWalk(vfs, filterBoolean(split(mountPath, "/")), content)

RECURSIVE walk(_, _)
\* The for loop of getNode from node on.
walk(node, parts) ==
    IF parts = <<>> THEN node
    ELSE IF "children" \notin DOMAIN node
              \/ ~HasProperty(node.children, Head(parts))
    THEN Null
    ELSE walk(GetProperty(node.children, Head(parts)), Tail(parts))

getNode(vfs, path) ==
    LET p == normalizePath(path) IN
    IF p = <<"/">> THEN vfs
    ELSE walk(vfs, filterBoolean(split(p, "/")))

\* ------------------------------------------ JSON.stringify and JSON.parse

\* The JSON text of a tree is the sequence of its tokens: braces, property
\* names, child names and string values, written depth first.
TokOpen == [t |-> "{"]

TokClose == [t |-> "}"]

TokProp(name) == [t |-> "prop", name |-> name]

TokName(name) == [t |-> "name", name |-> name]

TokString(value) == [t |-> "string", value |-> value]

RECURSIVE stringifyNode(_)
RECURSIVE stringifyChildren(_, _)
\* JSON.stringify of a node: its own properties, children last recursively.
stringifyNode(node) ==
    <<TokOpen, TokProp("type"), TokString(node.type)>>
        \o (IF "content" \in DOMAIN node
            THEN <<TokProp("content"), TokString(node.content)>>
            ELSE <<>>)
        \o (IF "children" \in DOMAIN node
            THEN <<TokProp("children"), TokOpen>>
                     \o stringifyChildren(node.children, DOMAIN node.children)
                     \o <<TokClose>>
            ELSE <<>>)
        \o <<TokClose>>

\* The entries of a children object that are still to be written.
stringifyChildren(children, names) ==
    IF names = {} THEN <<>>
    ELSE LET name == CHOOSE n \in names : TRUE
         IN  <<TokName(name)>> \o stringifyNode(children[name])
                 \o stringifyChildren(children, names \ {name})

JSONstringify(vfs) == stringifyNode(vfs)

RECURSIVE parseNode(_)
RECURSIVE parseProps(_, _)
RECURSIVE parseChildren(_, _)
\* JSON.parse of the node that starts the tokens: the node and the tokens
\* after it.
parseNode(tokens) == parseProps(Tail(tokens), [name \in {} |-> name])

\* The properties of a node after those read into node.
parseProps(tokens, node) ==
    IF Head(tokens).t = "}" THEN [value |-> node, rest |-> Tail(tokens)]
    ELSE IF Head(tokens).name = "children"
    THEN LET children == parseChildren(Tail(Tail(tokens)), NoChildren)
         IN  parseProps(children.rest,
                        node @@ [children |-> children.value])
    ELSE parseProps(Tail(Tail(tokens)),
                    node @@ (Head(tokens).name :> tokens[2].value))

\* The entries of a children object after those read into children.
parseChildren(tokens, children) ==
    IF Head(tokens).t = "}" THEN [value |-> children, rest |-> Tail(tokens)]
    ELSE LET child == parseNode(Tail(tokens))
         IN  parseChildren(child.rest,
                           children @@ (Head(tokens).name :> child.value))

JSONparse(text) == parseNode(text).value

\* ----------------------------------------------------------------- VfsStore

UserIds == {1}

ScenarioCodes == {"file_recovery"}

\* A row of table user_vfs_state (updated_at, which nothing reads, is left
\* out).
Row(userId, scenarioCode, cwd, vfs_data) ==
    [user_id |-> userId, scenario_code |-> scenarioCode,
     cwd |-> cwd, vfs_data |-> vfs_data]

\* SELECT ... FROM user_vfs_state WHERE user_id = ? AND scenario_code = ?:
\* the matching rows; db.get returns the first one, or undefined.
selectState(table, userId, scenarioCode) ==
    SelectSeq(table, LAMBDA row :
        row.user_id = userId /\ row.scenario_code = scenarioCode)

\* A variant of insertState that replaces the rows of the pair (INSERT OR
\* REPLACE).
insertOrReplaceState(table, userId, scenarioCode, cwd, vfs_data) ==
    Append(SelectSeq(table, LAMBDA row :
               ~(row.user_id = userId /\ row.scenario_code = scenarioCode)),
           Row(userId, scenarioCode, cwd, vfs_data))

\* INSERT INTO user_vfs_state (user_id, scenario_code, cwd, vfs_data)
insertState(table, userId, scenarioCode, cwd, vfs_data) ==
    Append(table, Row(userId, scenarioCode, cwd, vfs_data))

\* A variant of updateCwd whose statement writes the whole row, with the
\* tree set back to the default structure.
updateCwdReplacingRow(table, userId, scenarioCode, cwd) ==
    [i \in 1..Len(table) |->
        IF table[i].user_id = userId /\ table[i].scenario_code = scenarioCode
        THEN Row(userId, scenarioCode, cwd, JSONstringify(DefaultVFS))
        ELSE table[i]]

\* UPDATE user_vfs_state SET cwd = ? WHERE user_id = ? AND scenario_code = ?
updateCwd(table, userId, scenarioCode, cwd) ==
    [i \in 1..Len(table) |->
        IF table[i].user_id = userId /\ table[i].scenario_code = scenarioCode
        THEN [table[i] EXCEPT !.cwd = cwd]
        ELSE table[i]]

\* UPDATE user_vfs_state SET vfs_data = ? WHERE user_id = ? AND
\* scenario_code = ?
updateVfsData(table, userId, scenarioCode, vfs_data) ==
    [i \in 1..Len(table) |->
        IF table[i].user_id = userId /\ table[i].scenario_code = scenarioCode
        THEN [table[i] EXCEPT !.vfs_data = vfs_data]
        ELSE table[i]]

\* ------------------------------------------------------ inputs of the store

Slots == 1..MaxRequests

PathMnt == <<"/", "m", "n", "t">>

PathMntUsb == <<"/", "m", "n", "t", "/", "u", "s", "b">>

PathMntUsbSlash == <<"/", "m", "n", "t", "/", "u", "s", "b", "/">>

PathEvidence == <<"/", "e", "v", "i", "d", "e", "n", "c", "e">>

PathTmp == <<"/", "t", "m", "p">>

\* The device contents the model mounts and where.
UsbContent ==
    Obj( (<<"n", "o", "t", "e", "s", ".", "t", "x", "t">> :> Str("case notes"))
           @@ (<<"c", "o", "u", "n", "t">> :> Num(7)) )

DiskContent == Obj( (<<"d", "i", "s", "k", ".", "i", "m", "g">> :> Str("disk image")) )

MountArgs ==
    { [mountPoint |-> PathMntUsb, content |-> UsbContent],
      [mountPoint |-> PathMntUsbSlash, content |-> DiskContent],
      [mountPoint |-> PathEvidence, content |-> DiskContent] }

\* A tree a console command hands to updateVFS: the default one with a file
\* written under the tmp directory.
EditedVFS ==
    mountContent(DefaultVFS, PathTmp, Obj( (<<"o", "u", "t">> :> Str("output")) ))

UpdatesValues ==
    { Property("cwd", cwd) @@ Property("vfs", vfs) :
        cwd \in Optional({PathMnt}), vfs \in Optional({EditedVFS}) }

\* The calls a request can make.
StoreCalls ==
    {[op |-> "getVFS"]}
        \cup {[op |-> "updateVFS", updates |-> u] : u \in UpdatesValues}
        \cup {[op |-> "mountDeviceContentToVFS", mountPoint |-> m.mountPoint,
               content |-> m.content] : m \in MountArgs}

\* Tables the database file can hold when the server starts: none of the
\* pair's rows yet, the row a first getVFS makes, and that row after a
\* mount and a cd.
InitialTables ==
    LET created == insertState(<<>>, 1, "file_recovery", DefaultCwd,
                               JSONstringify(DefaultVFS))
        mounted == mountContent(DefaultVFS, PathMntUsb, UsbContent)
    IN  { <<>>, created,
          updateCwd(updateVfsData(created, 1, "file_recovery",
                                  JSONstringify(mounted)),
                    1, "file_recovery", PathMnt) }

\* --------------------------------------------------- requests on the store

IdleRequest == [pc |-> "idle"]

NoLocals == [name \in {} |-> name]

Undefined == [type |-> "undefined"]

\* A variant of rejected in which the error is caught and the call returns
\* as if the statement had run.
rejectedAndCaught(r) ==
    [req EXCEPT ![r] = [error |-> "StorageError"]
                           @@ [req[r] EXCEPT !.pc = "done", !.ret = Undefined]]

\* The requests after the statement the request in slot r awaits is
\* rejected: no function of the call catches, so the error leaves
\* initializeVFS, getVFS, updateVFS and mountDeviceContentToVFS and the
\* call ends with it.
rejected(r) ==
    [req EXCEPT ![r] = [error |-> "StorageError"]
                           @@ [req[r] EXCEPT !.pc = "failed"]]

\* The first statement updateVFS runs for updates, or its return.
updateEntry(updates) ==
    IF "cwd" \in DOMAIN updates THEN "updateVFS:cwd"
    ELSE IF "vfs" \in DOMAIN updates THEN "updateVFS:vfs"
    ELSE "done"

\* Slot r takes a call c for a pair: the function is entered and runs up to
\* its first database statement (updateVFS with neither field returns at
\* once).  before keeps the pair's rows as they are at the call.
\* completed keeps the slots whose calls had returned when this one was
\* made.
Call(r) ==
    /\ req[r].pc = "idle"
    /\ \E c \in StoreCalls, userId \in UserIds, scenarioCode \in ScenarioCodes :
          req' = [req EXCEPT ![r] =
              [ pc           |-> IF c.op = "updateVFS"
                                 THEN updateEntry(c.updates)
                                 ELSE "getVFS:select",
                call         |-> c,
                completed    |-> {o \in Slots : req[o].pc = "done"},
                userId       |-> userId,
                scenarioCode |-> scenarioCode,
                local        |-> IF c.op = "updateVFS"
                                 THEN [updates |-> c.updates,
                                       before  |-> selectState(db, userId,
                                                               scenarioCode)]
                                 ELSE NoLocals,
                ret          |-> IF c.op = "updateVFS"
                                      /\ updateEntry(c.updates) = "done"
                                 THEN Undefined
                                 ELSE Pending ]]
    /\ UNCHANGED <<call, ret, db, bus>>

\* getVFS returns state to the request in slot r: a getVFS call is done; a
\* mount goes on with mountContent on the tree and enters updateVFS({vfs}).
\* snapshot keeps the tree as it was read.
getVFSReturns(r, state) ==
    LET result == [vfs |-> JSONparse(state.vfs_data), cwd |-> state.cwd] IN
    IF req[r].call.op = "getVFS"
    THEN [req EXCEPT ![r].pc = "done", ![r].ret = result]
    ELSE LET vfs == mountContent(result.vfs, req[r].call.mountPoint,
                                 req[r].call.content)
         IN  [req EXCEPT ![r].pc = "updateVFS:vfs",
                         ![r].local = [snapshot |-> result.vfs,
                                       vfs      |-> vfs,
                                       updates  |-> [vfs |-> vfs]]]

\* The first db.get of getVFS.
GetSelect(r) ==
    /\ req[r].pc = "getVFS:select"
    /\ LET rows == selectState(db, req[r].userId, req[r].scenarioCode) IN
       req' = IF rows # <<>> THEN getVFSReturns(r, rows[1])
              ELSE [req EXCEPT ![r].pc = "initializeVFS:select"]
    /\ UNCHANGED <<call, ret, db, bus>>

\* The db.get of initializeVFS: an existing row ends initializeVFS, which
\* returns its tree to the local vfs of getVFS.
InitSelect(r) ==
    /\ req[r].pc = "initializeVFS:select"
    /\ LET rows == selectState(db, req[r].userId, req[r].scenarioCode) IN
       req' = IF rows # <<>>
              THEN [req EXCEPT ![r].pc = "getVFS:reselect",
                               ![r].local =
                                   [vfs |-> JSONparse(rows[1].vfs_data)]]
              ELSE [req EXCEPT ![r].pc = "initializeVFS:insert"]
    /\ UNCHANGED <<call, ret, db, bus>>

\* The db.run of initializeVFS: the default row is inserted and the
\* default tree returned to the local vfs of getVFS.
\* The schema of user_vfs_state is not part of the sources: when the pair
\* has a row by now, the INSERT adds a second row (no UNIQUE constraint on
\* the pair) or is rejected (a UNIQUE constraint).
InitInsert(r) ==
    /\ req[r].pc = "initializeVFS:insert"
    /\ \/ /\ db' = insertState(db, req[r].userId, req[r].scenarioCode,
                               DefaultCwd, JSONstringify(DefaultVFS))
          /\ req' = [req EXCEPT ![r].pc = "getVFS:reselect",
                                ![r].local = [vfs |-> DefaultVFS]]
       \/ /\ selectState(db, req[r].userId, req[r].scenarioCode) # <<>>
          /\ db' = db
          /\ req' = rejected(r)
    /\ UNCHANGED <<call, ret, bus>>

\* The second db.get of getVFS; reading a property of an undefined state
\* throws.
GetReselect(r) ==
    /\ req[r].pc = "getVFS:reselect"
    /\ LET rows == selectState(db, req[r].userId, req[r].scenarioCode) IN
       req' = IF rows # <<>> THEN getVFSReturns(r, rows[1])
              ELSE [req EXCEPT ![r].pc = "failed"]
    /\ UNCHANGED <<call, ret, db, bus>>

\* The value the call in slot r returns when its updateVFS is over.
returnValue(r) ==
    IF req[r].call.op = "updateVFS" THEN Undefined ELSE req[r].local.vfs

\* The first db.run of updateVFS.
UpdateCwd(r) ==
    /\ req[r].pc = "updateVFS:cwd"
    /\ db' = updateCwd(db, req[r].userId, req[r].scenarioCode,
                       req[r].local.updates.cwd)
    /\ req' = IF "vfs" \in DOMAIN req[r].local.updates
              THEN [req EXCEPT ![r].pc = "updateVFS:vfs"]
              ELSE [req EXCEPT ![r].pc = "done", ![r].ret = returnValue(r)]
    /\ UNCHANGED <<call, ret, bus>>

\* The second db.run of updateVFS.
UpdateVfs(r) ==
    /\ req[r].pc = "updateVFS:vfs"
    /\ db' = updateVfsData(db, req[r].userId, req[r].scenarioCode,
                           JSONstringify(req[r].local.updates.vfs))
    /\ req' = [req EXCEPT ![r].pc = "done", ![r].ret = returnValue(r)]
    /\ UNCHANGED <<call, ret, bus>>

Init ==
    /\ call = NoCall
    /\ ret = Pending
    /\ db \in InitialTables
    /\ req = [r \in Slots |-> IdleRequest]
    /\ IdleBus

Next ==
    \E r \in Slots :
        \/ Call(r)
        \/ GetSelect(r)
        \/ InitSelect(r)
        \/ InitInsert(r)
        \/ GetReselect(r)
        \/ UpdateCwd(r)
        \/ UpdateVfs(r)

Spec == Init /\ [][Next]_vars

\* ------------------------------------------------------- storage failures

\* The pcs at which a request waits for db.get or db.run.
StatementPcs ==
    {"getVFS:select", "initializeVFS:select", "initializeVFS:insert",
     "getVFS:reselect", "updateVFS:cwd", "updateVFS:vfs"}

\* The database rejects the statement of the request in slot r; the
\* statement has no effect.
StatementFails(r) ==
    /\ req[r].pc \in StatementPcs
    /\ req' = rejected(r)
    /\ UNCHANGED <<call, ret, db, bus>>

FaultNext ==
    \/ Next
    \/ \E r \in Slots : StatementFails(r)

FaultSpec == Init /\ [][FaultNext]_vars

\* ---------------------------------------------------- claims about the store

SamePair(a, b) ==
    req[a].userId = req[b].userId /\ req[a].scenarioCode = req[b].scenarioCode

\* The state persisted for the pair of the request in slot r: the row a
\* read finds, as a tree and a cwd.
Persisted(r) ==
    LET rows == selectState(db, req[r].userId, req[r].scenarioCode)
    IN  [vfs |-> JSONparse(rows[1].vfs_data), cwd |-> rows[1].cwd]

GetDone(r) == req[r].pc = "done" /\ req[r].call.op = "getVFS"

\* The request in slot r is an updateVFS call with both fields that has run
\* its first statement, on a pair that had a row when it was called.
UpdateOfBoth(r) ==
    /\ req[r].pc \in {"updateVFS:vfs", "done"}
    /\ req[r].call.op = "updateVFS"
    /\ DOMAIN req[r].call.updates = {"cwd", "vfs"}
    /\ req[r].local.before # <<>>

\* C8: a read never observes one half of an update of both fields: not the
\* new cwd with the old tree, and not the new tree with the old cwd.
C8_UpdateIsOneLogicalWrite ==
    \A g \in Slots, u \in Slots :
        (GetDone(g) /\ UpdateOfBoth(u) /\ SamePair(g, u)) =>
            LET oldCwd == req[u].local.before[1].cwd
                oldVfs == JSONparse(req[u].local.before[1].vfs_data)
                newCwd == req[u].call.updates.cwd
                newVfs == req[u].call.updates.vfs
                seen   == req[g].ret
            IN  (oldCwd # newCwd /\ oldVfs # newVfs) =>
                    /\ ~(seen.cwd = newCwd /\ seen.vfs = oldVfs)
                    /\ ~(seen.cwd = oldCwd /\ seen.vfs = newVfs)

MountDone(r) ==
    req[r].pc = "done" /\ req[r].call.op = "mountDeviceContentToVFS"

\* Every file of the mount in slot r is a file of tree, under the mount
\* point.
HasFilesOf(tree, r) ==
    \A name \in DOMAIN req[r].call.content.value :
        LET node == getNode(tree, req[r].call.mountPoint \o <<"/">> \o name)
        IN  node.type = "file"

\* The mounts in slots a and b write no file in common.
DistinctFiles(a, b) ==
    \/ normalizePath(req[a].call.mountPoint)
           # normalizePath(req[b].call.mountPoint)
    \/ DOMAIN req[a].call.content.value
           \cap DOMAIN req[b].call.content.value = {}

CwdColumn(table) == [i \in 1..Len(table) |-> table[i].cwd]

VfsColumn(table) == [i \in 1..Len(table) |-> table[i].vfs_data]

\* C10: update is partial.  No step of an updateVFS call without a tree
\* changes a persisted tree, no step of one without a cwd changes a
\* persisted cwd, and so a call with neither changes nothing.
C10_PartialUpdate ==
    [][ \A r \in Slots :
          (req'[r] # req[r] /\ req'[r].call.op = "updateVFS") =>
              LET updates == req'[r].call.updates IN
              /\ "vfs" \notin DOMAIN updates => VfsColumn(db') = VfsColumn(db)
              /\ "cwd" \notin DOMAIN updates => CwdColumn(db') = CwdColumn(db)
      ]_vars

\* A finished update of the cwd alone: the persisted cwd is the new one and
\* the persisted tree is the one from before the call.
C10_Witness ==
    \E r \in Slots :
        /\ req[r].pc = "done"
        /\ req[r].call.op = "updateVFS"
        /\ DOMAIN req[r].call.updates = {"cwd"}
        /\ req[r].local.before # <<>>
        /\ req[r].local.before[1].cwd # req[r].call.updates.cwd
        /\ Persisted(r).cwd = req[r].call.updates.cwd
        /\ Persisted(r).vfs = JSONparse(req[r].local.before[1].vfs_data)
        /\ Persisted(r).vfs # DefaultVFS

\* ---------------------------------------------------- claims about the paths

PathDone(fn) == call.fn = fn /\ "value" \in DOMAIN ret

DotSegments == {<<".">>, <<".", ".">>}

\* The path is '/' followed by segments joined by '/', none of them empty:
\* it starts with '/', has no '//' and ends with '/' only when it is '/'.
Reassembled(p) ==
    /\ startsWith(p, <<"/">>)
    /\ \A i \in 1..(Len(p) - 1) : ~(p[i] = "/" /\ p[i + 1] = "/")
    /\ p[Len(p)] = "/" => p = <<"/">>

\* C14: for every path and every cwd (an absolute one, whatever its
\* segments), resolvePath returns a string that starts with '/' and has no
\* segment equal to '.' or '..'.
C14_ResolveHasNoDotSegment ==
    (PathDone("resolvePath") /\ startsWith(call.cwd, <<"/">>)) =>
        /\ startsWith(ret.value, <<"/">>)
        /\ \A i \in DOMAIN split(ret.value, "/") :
               split(ret.value, "/")[i] \notin DotSegments

\* C15: normalizePath is idempotent: normalizing its result gives the
\* result again.
C15_NormalizeIdempotent ==
    PathDone("normalizePath") => normalizePath(ret.value) = ret.value

\* A path with a repeated slash, a '.' segment and a '..' that pops past
\* the root has been normalized.
C15_Witness ==
    /\ PathDone("normalizePath")
    /\ call.path = <<".", ".", "/", "/", ".">>
    /\ ret.value = <<"/">>

\* n '..' segments joined by '/'.
RECURSIVE DotDots(_)
DotDots(n) ==
    IF n = 0 THEN <<>>
    ELSE IF n = 1 THEN <<".", ".">>
    ELSE <<".", ".", "/">> \o DotDots(n - 1)

\* C16: a '..' at the root is a pop that does nothing.  The result of
\* normalizePath and of resolvePath is '/' followed by the segments left
\* joined by '/', exactly '/' when none is left; one more leading '..'
\* than the root allows changes nothing; and a path of '..' segments, as
\* many as the cwd has segments or more, resolves to '/'.
C16_DotDotClampedAtRoot ==
    /\ PathDone("normalizePath") =>
          /\ Reassembled(ret.value)
          /\ normalizePath(<<"/", ".", ".", "/">> \o call.path)
                 = normalizePath(<<"/">> \o call.path)
          /\ \A n \in 1..MaxPathLen :
                 normalizePath(<<"/">> \o DotDots(n) \o <<"/">> \o call.path)
                     = normalizePath(<<"/">> \o call.path)
    /\ PathDone("resolvePath") =>
          /\ Reassembled(ret.value)
          /\ resolvePath(<<".", ".", "/">> \o call.path, <<"/">>)
                 = resolvePath(call.path, <<"/">>)
          /\ \A n \in 1..MaxPathLen :
                 n >= Len(filterBoolean(split(call.cwd, "/")))
                     => resolvePath(DotDots(n), call.cwd) = <<"/">>

\* Two '..' segments have been resolved against a cwd one directory deep.
C16_Witness ==
    /\ PathDone("resolvePath")
    /\ call.path = DotDots(2)
    /\ call.cwd = <<"/", "a">>
    /\ ret.value = <<"/">>

\* C17: for a path that starts with '/', resolvePath gives normalizePath of
\* the path, whatever the cwd.
C17_AbsolutePathIgnoresCwd ==
    (PathDone("resolvePath") /\ startsWith(call.path, <<"/">>)) =>
        /\ ret.value = normalizePath(call.path)
        /\ \A c \in Cwds : resolvePath(call.path, c) = ret.value

\* An absolute path has been resolved with a cwd that is not the root.
C17_Witness ==
    /\ PathDone("resolvePath")
    /\ call.path = <<"/", "a", "/", ".">>
    /\ call.cwd = <<"/", "a">>
    /\ ret.value = <<"/", "a">>

\* ------------------------------------------------------ mounts on one tree

NameReadme == <<"R", "E", "A", "D", "M", "E", ".", "t", "x", "t">>

NameNotes == <<"n", "o", "t", "e", "s", ".", "t", "x", "t">>

PathRoot == <<"/">>

PathHomeUser == <<"/", "h", "o", "m", "e", "/", "u", "s", "e", "r">>

\* A mount path that goes through the file README.txt.
PathThroughReadme == PathHomeUser \o <<"/">> \o NameReadme \o <<"/", "x">>

\* A mount path that ends at the file a mount of UsbContent makes.
PathUsbNotes == PathMntUsb \o <<"/">> \o NameNotes

\* A second version of the notes of the usb device.
NotesContent == Obj( (NameNotes :> Str("new notes")) )

\* A content with a file named as the directory usb.
UsbImageContent == Obj( (<<"u", "s", "b">> :> Str("usb image")) )

TreeMountPaths ==
    {PathMntUsb, PathMntUsbSlash, PathEvidence, PathRoot, PathThroughReadme,
     PathUsbNotes, PathMnt}

TreeContents ==
    {Null, UsbContent, DiskContent, NotesContent, UsbImageContent}

\* The paths getNode is asked for: existing and missing ones, below a
\* file, not normalized, relative, and a name every object inherits.
NodePaths ==
    { PathRoot, PathEvidence, PathMntUsb, PathUsbNotes,
      PathUsbNotes \o <<"/", "x">>,
      PathHomeUser \o <<"/">> \o NameReadme \o <<"/", "x">>,
      <<"/", "n", "o">>,
      <<"/", "m", "n", "t", "/", "n", "o", "/", "x">>,
      <<"/", "h", "o", "m", "e", "/", ".", ".", "/", "/", "m", "n", "t", "/",
        ".", "/", "u", "s", "b">>,
      <<"m", "n", "t">>,
      <<"/">> \o NameConstructor,
      PathMnt \o <<"/">> \o NameConstructor \o <<"/", "x">> }

\* ret holds the tree and how many mounts made it; call holds the last
\* operation, for a mount with the tree it was given.
TreeInit ==
    /\ call = [fn |-> "initializeVFS"]
    /\ ret = [vfs |-> DefaultVFS, mounts |-> 0]
    /\ IdleStore
    /\ IdleBus

MountContent ==
    /\ ret.mounts < MaxMounts
    /\ \E mountPath \in TreeMountPaths, content \in TreeContents :
          /\ call' = [fn |-> "mountContent", mountPath |-> mountPath,
                      content |-> content, before |-> ret.vfs]
          /\ ret' = [vfs    |-> mountContent(ret.vfs, mountPath, content),
                     mounts |-> ret.mounts + 1]
    /\ UNCHANGED <<db, req, bus>>

GetNode ==
    /\ \E path \in NodePaths :
          /\ call' = [fn |-> "getNode", path |-> path]
          /\ ret' = [vfs    |-> ret.vfs,
                     mounts |-> ret.mounts,
                     node   |-> getNode(ret.vfs, path)]
    /\ UNCHANGED <<db, req, bus>>

TreeNext == MountContent \/ GetNode

TreeSpec == TreeInit /\ [][TreeNext]_vars

\* ----------------------------------------------------- claims about a tree

RECURSIVE WellFormed(_)
\* The data model: a Directory has children and no content, a File has
\* content and no children, and the children of a Directory are nodes.
WellFormed(node) ==
    CASE node.type = "dir" ->
             /\ DOMAIN node = {"type", "children"}
             /\ \A name \in DOMAIN node.children :
                    WellFormed(node.children[name])
      [] node.type = "file" -> DOMAIN node = {"type", "content"}
      [] OTHER -> FALSE

RECURSIVE NodeAt(_, _)
\* The node the segments lead to from node through children of
\* Directories, Null when a segment names no child or the node is no
\* Directory.
NodeAt(node, segments) ==
    IF segments = <<>> THEN node
    ELSE IF node.type # "dir" \/ Head(segments) \notin DOMAIN node.children
    THEN Null
    ELSE NodeAt(node.children[Head(segments)], Tail(segments))

SegmentsOf(path) == SelectSeq(split(path, "/"), LAMBDA seg : seg # <<>>)

\* C18: after any sequence of mounts on the default tree the root is a
\* Directory and every node is a Directory with children and no content or
\* a File with content and no children.
C18_MountKeepsDataModel ==
    ret.vfs.type = "dir" /\ WellFormed(ret.vfs)

\* C19: on a tree that satisfies the data model getNode returns the node
\* the segments of the normalized path lead to, and Absent as soon as a
\* segment names no child or the walk would go below a File; for '/' it
\* returns the root.
C19_GetNodeWalksOrAbsent ==
    (call.fn = "getNode" /\ WellFormed(ret.vfs)) =>
        /\ ret.node = NodeAt(ret.vfs, SegmentsOf(normalizePath(call.path)))
        /\ call.path = PathRoot => ret.node = ret.vfs

\* C20: a mount is additive.  Every file directly under the mount
\* directory before the mount, with a name that is no key of content, is
\* there after the mount with the same content.
C20_MountIsAdditive ==
    call.fn = "mountContent" =>
        LET segments == SegmentsOf(call.mountPath)
            dir      == NodeAt(call.before, segments)
        IN  dir.type = "dir" =>
              \A name \in DOMAIN dir.children :
                  (/\ dir.children[name].type = "file"
                   /\ \/ call.content = Null
                      \/ name \notin DOMAIN call.content.value)
                  => NodeAt(ret.vfs, Append(segments, name))
                         = dir.children[name]

\* New notes have been mounted over the usb directory that held the case
\* notes and the count: the count is kept, the notes are the new ones.
C20_Witness ==
    /\ call.fn = "mountContent"
    /\ call.mountPath = PathMntUsbSlash
    /\ call.content = NotesContent
    /\ getNode(call.before, PathUsbNotes) = File("case notes")
    /\ getNode(call.before, PathMntUsb \o <<"/", "c", "o", "u", "n", "t">>)
          = File("7")
    /\ getNode(ret.vfs, PathMntUsb \o <<"/", "c", "o", "u", "n", "t">>)
          = File("7")
    /\ getNode(ret.vfs, PathUsbNotes) = File("new notes")

\* ------------------------------------------- claims about reads and failures

\* The request in slot r is inside getVFS (initializeVFS included).
InGetVFS(r) ==
    req[r].pc \in {"getVFS:select", "initializeVFS:select",
                   "initializeVFS:insert", "getVFS:reselect"}

\* The rows of table for the pair of the request in slot r.
Found(table, r) == selectState(table, req[r].userId, req[r].scenarioCode)

\* C11: getVFS on a pair that has a persisted state does not modify what a
\* read of the pair finds, and returns exactly that state: the cwd of the
\* row and the tree its vfs_data is the text of.  No step of a getVFS
\* sets a persisted tree or cwd back to the default.
C11_GetReturnsPersistedState ==
    [][ \A r \in Slots :
          (InGetVFS(r) /\ req'[r] # req[r] /\ Found(db, r) # <<>>) =>
              /\ Found(db', r) # <<>>
              /\ Found(db', r)[1] = Found(db, r)[1]
              /\ (req'[r].pc = "done" /\ req'[r].call.op = "getVFS") =>
                    /\ req'[r].ret.cwd = Found(db, r)[1].cwd
                    /\ JSONstringify(req'[r].ret.vfs) = Found(db, r)[1].vfs_data
      ]_vars

\* A getVFS has returned the tree a finished mount wrote, and that tree is
\* still the persisted one.
C11_Witness ==
    \E g \in Slots, m \in Slots :
        /\ GetDone(g) /\ MountDone(m) /\ SamePair(g, m)
        /\ req[g].ret.vfs = req[m].ret
        /\ req[g].ret.vfs # req[m].local.snapshot
        /\ req[g].ret.vfs # DefaultVFS
        /\ HasFilesOf(req[g].ret.vfs, m)
        /\ Persisted(g) = req[g].ret

RECURSIVE FilesOf(_, _)
\* The paths of the File nodes below node, whose own path is prefix.
FilesOf(node, prefix) ==
    IF node.type = "file" THEN {prefix}
    ELSE IF "children" \notin DOMAIN node THEN {}
    ELSE UNION { FilesOf(node.children[name], prefix \o <<"/">> \o name) :
                    name \in DOMAIN node.children }

RECURSIVE DirsOf(_, _)
\* The paths of the Directory nodes below node, node included.
DirsOf(node, prefix) ==
    IF node.type # "dir" THEN {}
    ELSE {prefix} \cup
         UNION { DirsOf(node.children[name], prefix \o <<"/">> \o name) :
                    name \in DOMAIN node.children }

\* The directories of the default skeleton, the root being <<>>.
SkeletonDirs ==
    { <<>>,
      <<"/", "h", "o", "m", "e">>,
      <<"/", "h", "o", "m", "e", "/", "u", "s", "e", "r">>,
      <<"/", "e", "v", "i", "d", "e", "n", "c", "e">>,
      <<"/", "c", "a", "p", "t", "u", "r", "e", "s">>,
      <<"/", "m", "e", "m", "o", "r", "y">>,
      <<"/", "m", "n", "t">>,
      <<"/", "t", "m", "p">>,
      <<"/", "v", "a", "r">>,
      <<"/", "v", "a", "r", "/", "l", "o", "g">> }

PathReadme == PathHomeUser \o <<"/">> \o NameReadme

\* cwd '/home/user' and the default skeleton: its directories and the one
\* file README.txt, so every directory but home/user is empty of files.
IsDefaultState(state) ==
    /\ state.cwd = <<"/", "h", "o", "m", "e", "/", "u", "s", "e", "r">>
    /\ DirsOf(state.vfs, <<>>) = SkeletonDirs
    /\ FilesOf(state.vfs, <<>>) = {PathReadme}
    /\ getNode(state.vfs, PathEvidence) = Dir(NoChildren)
    /\ getNode(state.vfs, PathMnt) = Dir(NoChildren)

\* C12: the first getVFS for a pair, with no other request on the store,
\* returns cwd '/home/user' and the default skeleton, and that is what it
\* has persisted.
C12_FirstGetYieldsDefault ==
    [][ \A r \in Slots :
          (/\ req[r].pc = "getVFS:reselect"
           /\ req'[r].pc = "done"
           /\ req'[r].call.op = "getVFS"
           /\ \A o \in Slots \ {r} : req[o].pc = "idle")
          => /\ IsDefaultState(req'[r].ret)
             /\ Len(db') = 1
             /\ db'[1].cwd = req'[r].ret.cwd
             /\ JSONparse(db'[1].vfs_data) = req'[r].ret.vfs
      ]_vars

\* A getVFS that went through initializeVFS has returned the default
\* state, one row holds it and no other request was made.
C12_Witness ==
    \E g \in Slots :
        /\ GetDone(g)
        /\ \A o \in Slots \ {g} : req[o].pc = "idle"
        /\ Len(db) = 1
        /\ "vfs" \in DOMAIN req[g].local
        /\ IsDefaultState(req[g].ret)
        /\ Persisted(g) = req[g].ret

\* C13: a call one of whose statements the database rejected ends with
\* the error: it never returns a value.
C13_StorageErrorSurfaces ==
    \A r \in Slots :
        "error" \in DOMAIN req[r] =>
            /\ req[r].pc = "failed"
            /\ req[r].ret = Pending

\* The write of a mount was rejected after its read went through: the
\* mount ended with the error and the persisted tree lacks its files.
C13_Witness ==
    \E m \in Slots :
        /\ "error" \in DOMAIN req[m]
        /\ req[m].call.op = "mountDeviceContentToVFS"
        /\ "vfs" \in DOMAIN req[m].local
        /\ HasFilesOf(req[m].local.vfs, m)
        /\ ~HasFilesOf(Persisted(m).vfs, m)
        /\ req[m].pc = "failed"

\* -------------------------------------------- claims about repeated mounts

\* The first k segments.
Prefix(segments, k) == SubSeq(segments, 1, k)

\* C21: directory creation along the mount path is idempotent.  A
\* Directory that exists on the path before the mount is a Directory after
\* it, with every child it had that is not the next segment of the path
\* (and, in the mount directory, not a key of content) unchanged; and the
\* same mount applied to the result gives the result again.
C21_MountReusesDirectories ==
    call.fn = "mountContent" =>
        LET segments == SegmentsOf(call.mountPath)
            written(k) ==
                IF k < Len(segments) THEN {segments[k + 1]}
                ELSE IF call.content = Null THEN {}
                ELSE DOMAIN call.content.value
        IN  /\ mountContent(ret.vfs, call.mountPath, call.content) = ret.vfs
            /\ \A k \in 0..Len(segments) :
                  LET old == NodeAt(call.before, Prefix(segments, k))
                      new == NodeAt(ret.vfs, Prefix(segments, k))
                  IN  old.type = "dir" =>
                        /\ new.type = "dir"
                        /\ DOMAIN old.children \subseteq DOMAIN new.children
                        /\ \A name \in DOMAIN old.children \ written(k) :
                               new.children[name] = old.children[name]

\* The disk image has been mounted on /mnt/usb, which held the files of
\* the usb device: mnt and usb are the directories they were, with those
\* files, and the image is there.
C21_Witness ==
    /\ call.fn = "mountContent"
    /\ call.mountPath = PathMntUsb
    /\ call.content = DiskContent
    /\ NodeAt(call.before, SegmentsOf(PathUsbNotes)) = File("case notes")
    /\ NodeAt(ret.vfs, SegmentsOf(PathUsbNotes)) = File("case notes")
    /\ NodeAt(ret.vfs, SegmentsOf(PathMntUsb)
                           \o <<(<<"d", "i", "s", "k", ".", "i", "m", "g">>)>>)
          = File("disk image")

\* --------------------------------------------------- inputs of the tokenizer

TokenAlphabet == {"a", " ", "\"", "'"}

\* 'dd if=/dev/sdb of=/forensic/evidence.img'
ExampleDd ==
    <<"d", "d", " ", "i", "f", "=", "/", "d", "e", "v", "/", "s", "d",
    "b", " ", "o", "f", "=", "/", "f", "o", "r", "e", "n", "s", "i",
    "c", "/", "e", "v", "i", "d", "e", "n", "c", "e", ".", "i", "m",
    "g">>

\* 'mount "My Disk" /mnt'
ExampleMount ==
    <<"m", "o", "u", "n", "t", " ", "\"", "M", "y", " ", "D", "i", "s",
    "k", "\"", " ", "/", "m", "n", "t">>

CommandLines ==
    StringsUpTo(TokenAlphabet, MaxInputLen) \cup {ExampleDd, ExampleMount}

TokenInit ==
    /\ call \in {[fn |-> "parseCommandArgs", input |-> i] : i \in CommandLines}
    /\ ret = Pending
    /\ IdleStore
    /\ IdleBus

ParseCommandArgs ==
    /\ ret = Pending
    /\ ret' = [args |-> parseCommandArgs(call.input)]
    /\ UNCHANGED <<call, db, req, bus>>

TokenNext == ParseCommandArgs

TokenSpec == TokenInit /\ [][TokenNext]_vars

\* ------------------------------------------------- claims about the tokenizer

TokenDone == "args" \in DOMAIN ret

QuoteChars == {"\"", "'"}

\* s has none of the characters of chars.
Without(s, chars) == \A i \in DOMAIN s : s[i] \notin chars

\* The pieces of s between spaces, the empty ones left out.
Words(s) == SelectSeq(split(s, " "), LAMBDA piece : piece # <<>>)

\* <<s>> when s is not empty, else no token.
Token(s) == IF s = <<>> THEN <<>> ELSE <<s>>

\* The ways to write input as pre, a quote character q, mid without q, q
\* again and post.
QuotedRuns(input) ==
    { [pre  |-> SubSeq(input, 1, i - 1),
       q    |-> input[i],
       mid  |-> SubSeq(input, i + 1, j - 1),
       post |-> SubSeq(input, j + 1, Len(input))] :
        <<i, j>> \in { <<i, j>> \in (DOMAIN input) \X (DOMAIN input) :
                          /\ i < j
                          /\ input[i] \in QuoteChars
                          /\ input[j] = input[i]
                          /\ Without(SubSeq(input, i + 1, j - 1),
                                     {input[i]}) } }

\* The ways to write input as pre, a quote character q and mid without q.
OpenRuns(input) ==
    { [pre |-> SubSeq(input, 1, i - 1),
       q   |-> input[i],
       mid |-> SubSeq(input, i + 1, Len(input))] :
        i \in { i \in DOMAIN input :
                  /\ input[i] \in QuoteChars
                  /\ Without(SubSeq(input, i + 1, Len(input)),
                             {input[i]}) } }

\* C22: the input is split at unquoted spaces and the quote characters
\* that open and close a run are removed, the spaces inside kept.  Words
\* without quotes separated by spaces come out as those words in order;
\* a quoted run between such words comes out as one token; the two
\* command lines of the specification give the tokens it states.
C22_SplitsAtUnquotedSpaces ==
    TokenDone =>
        /\ Without(call.input, QuoteChars) => ret.args = Words(call.input)
        /\ \A run \in QuotedRuns(call.input) :
              (/\ Without(run.pre, QuoteChars)
               /\ Without(run.mid, QuoteChars)
               /\ Without(run.post, QuoteChars)
               /\ run.pre = <<>> \/ run.pre[Len(run.pre)] = " "
               /\ run.post = <<>> \/ run.post[1] = " ")
              => ret.args = Words(run.pre) \o Token(run.mid)
                                \o Words(run.post)
        /\ call.input = ExampleDd =>
              ret.args = << <<"d", "d">>,
                            <<"i", "f", "=", "/", "d", "e", "v", "/",
                            "s", "d", "b">>,
                            <<"o", "f", "=", "/", "f", "o", "r", "e",
                            "n", "s", "i", "c", "/", "e", "v", "i",
                            "d", "e", "n", "c", "e", ".", "i", "m",
                            "g">> >>
        /\ call.input = ExampleMount =>
              ret.args = << <<"m", "o", "u", "n", "t">>,
                            <<"M", "y", " ", "D", "i", "s", "k">>,
                            <<"/", "m", "n", "t">> >>

\* The command line with the quoted disk name has been split.
C22_Witness ==
    /\ TokenDone
    /\ call.input = ExampleMount
    /\ Len(ret.args) = 3
    /\ ret.args[2] = <<"M", "y", " ", "D", "i", "s", "k">>

\* C23: no token is empty, and an input of spaces only (the empty string
\* included) gives no token.
C23_NoEmptyToken ==
    TokenDone =>
        /\ \A k \in DOMAIN ret.args : ret.args[k] # <<>>
        /\ (\A i \in DOMAIN call.input : call.input[i] = " ")
              => ret.args = <<>>

\* Leading, doubled and trailing spaces around two words have collapsed.
C23_Witness ==
    /\ TokenDone
    /\ call.input = <<" ", "a", " ", " ", "a">>
    /\ ret.args = << <<"a">>, <<"a">> >>

\* C24: while a quote is open the other quote character is an ordinary
\* character of the token and leaves the quote open; the same quote
\* character closes it.  A run from the start of the input, or after a
\* space, to the same quote character followed by a space or the end is
\* one token with the other quote characters and the spaces in it.
C24_OtherQuoteIsLiteral ==
    TokenDone =>
        \A run \in QuotedRuns(call.input) :
            (/\ Without(run.pre, QuoteChars)
             /\ run.pre = <<>> \/ run.pre[Len(run.pre)] = " "
             /\ run.post = <<>> \/ run.post[1] = " ")
            => ret.args = Words(run.pre) \o Token(run.mid)
                              \o parseCommandArgs(run.post)

\* A double-quoted run that holds a single quote and a space is one token.
C24_Witness ==
    /\ TokenDone
    /\ call.input = <<"\"", "a", "'", " ", "\"">>
    /\ ret.args = << <<"a", "'", " ">> >>

\* C25: a quote that is never closed is no error.  What was read since
\* the last token boundary, the spaces after the opening quote included,
\* is the last token when it is not empty.
C25_UnterminatedQuoteFlushed ==
    TokenDone =>
        \A run \in OpenRuns(call.input) :
            Without(run.pre, QuoteChars) =>
                LET pieces == split(run.pre, " ")
                    last   == pieces[Len(pieces)]
                IN  ret.args =
                        SelectSeq(SubSeq(pieces, 1, Len(pieces) - 1),
                                  LAMBDA piece : piece # <<>>)
                            \o Token(last \o run.mid)

\* A quote opened after a word and never closed: the rest, with its
\* spaces, is the last token.
C25_Witness ==
    /\ TokenDone
    /\ call.input = <<"a", " ", "'", " ", "a">>
    /\ ret.args = << <<"a">>, <<" ", "a">> >>

\* ------------------------------------ claims about writes, races and failures

\* No request but those in slots is under way or was made.
OnlyRequests(slots) == \A o \in Slots \ slots : req[o].pc = "idle"

\* C26: read your writes.  After an updateVFS of the cwd alone or of the
\* tree alone has returned, whether or not the pair had a state, the next
\* getVFS of the pair returns that cwd or that tree.
C26_ReadYourWrites ==
    \A u \in Slots, g \in Slots :
        (/\ req[u].pc = "done" /\ req[u].call.op = "updateVFS"
         /\ DOMAIN req[u].call.updates \in {{"cwd"}, {"vfs"}}
         /\ GetDone(g) /\ SamePair(u, g)
         /\ u \in req[g].completed
         /\ OnlyRequests({u, g}))
        => /\ "cwd" \in DOMAIN req[u].call.updates
                 => req[g].ret.cwd = req[u].call.updates.cwd
           /\ "vfs" \in DOMAIN req[u].call.updates
                 => req[g].ret.vfs = req[u].call.updates.vfs

\* The getVFS in slot r is over and went into initializeVFS as far as the
\* INSERT: it found no row of the pair, twice.
FirstGetOver(r) ==
    /\ req[r].pc \in {"done", "failed"}
    /\ req[r].call.op = "getVFS"
    /\ \/ "error" \in DOMAIN req[r]
       \/ req[r].local = [vfs |-> DefaultVFS]

\* C27: the default state is created once.  When two first getVFS calls
\* on a fresh pair have run together, the pair has exactly one row, both
\* calls have returned the default tree with cwd '/home/user', and none
\* has failed.
C27_DefaultCreatedOnce ==
    \A a \in Slots, b \in Slots :
        (/\ a # b /\ FirstGetOver(a) /\ FirstGetOver(b) /\ SamePair(a, b)
         /\ OnlyRequests({a, b}))
        => /\ Len(Found(db, a)) = 1
           /\ req[a].pc = "done" /\ IsDefaultState(req[a].ret)
           /\ req[b].pc = "done" /\ IsDefaultState(req[b].ret)

\* C28: an updateVFS of both fields that ended with a storage error has
\* left the persisted state of the pair as it was at the call.
C28_FailedUpdateChangesNothing ==
    \A u \in Slots :
        (/\ req[u].pc = "failed" /\ req[u].call.op = "updateVFS"
         /\ DOMAIN req[u].call.updates = {"cwd", "vfs"}
         /\ req[u].local.before # <<>>
         /\ OnlyRequests({u}))
        => Found(db, u) = req[u].local.before

\* ------------------------------------------- claims about paths under mounts

RECURSIVE PathsOf(_, _)
\* The paths of the nodes below node, node included, whose own path is
\* prefix.
PathsOf(node, prefix) ==
    {prefix} \cup
        IF "children" \notin DOMAIN node THEN {}
        ELSE UNION { PathsOf(node.children[name], prefix \o <<"/">> \o name) :
                        name \in DOMAIN node.children }

\* C29: a mount makes no path disappear.  Every path getNode found a node
\* for before the mount, it finds a node for after it.
C29_MountKeepsPaths ==
    call.fn = "mountContent" =>
        \A path \in PathsOf(call.before, <<>>) :
            getNode(call.before, path) # Null
                => getNode(ret.vfs, path) # Null

\* ----------------------------------------------------------------- EventBus

\* this.maxHistorySize
maxHistorySize == 100

EventNames == {"auth:success", "task:completed"}

\* new Map()
NoListeners == [eventName \in {} |-> eventName]

\* The handlers the model subscribes: a function that returns, a function
\* that throws, and the wrappedHandler of once, which calls the function
\* it wraps and then its unsubscribe function.
Handler(id, kind) == [id |-> id, kind |-> kind]

\* handlers.indexOf(handler), 1-based, 0 when it is not there.
indexOf(handlers, handler) ==
    IF \E i \in DOMAIN handlers : handlers[i] = handler
    THEN CHOOSE i \in DOMAIN handlers :
             /\ handlers[i] = handler
             /\ \A j \in 1..(i - 1) : handlers[j] # handler
    ELSE 0

\* The unsubscribe function on returns: handlers after it ran.
unsubscribe(handlers, handler) ==
    LET idx == indexOf(handlers, handler) IN
    IF idx > 0
    THEN SubSeq(handlers, 1, idx - 1) \o SubSeq(handlers, idx + 1, Len(handlers))
    ELSE handlers

RECURSIVE dispatch(_, _, _)
\* The for...of loop of emit over the array handlers, the iterator standing
\* at index i (1-based): the array as the loop leaves it and the ids of
\* the handlers it has invoked.  The iterator reads the array as it is at
\* each step.
dispatch(handlers, i, invoked) ==
    IF i > Len(handlers)
    THEN [handlers |-> handlers, invoked |-> invoked]
    ELSE LET handler == handlers[i] IN
         dispatch(IF handler.kind = "once"
                  THEN unsubscribe(handlers, handler)
                  ELSE handlers,
                  i + 1,
                  Append(invoked, handler.id))

\* this.eventHistory after the push and the shift of emit (the name only).
pushHistory(eventHistory, eventName) ==
    LET pushed == Append(eventHistory, eventName) IN
    IF Len(pushed) > maxHistorySize THEN Tail(pushed) ELSE pushed

\* The bus after construction.  subscriptions and emits count the calls
\* made; emitted keeps, for the last emit, the handlers that were
\* subscribed when it was called and those it invoked.
BusInit ==
    /\ call = NoCall
    /\ ret = Pending
    /\ IdleStore
    /\ bus = [ listeners     |-> NoListeners,
               eventHistory  |-> <<>>,
               subscriptions |-> 0,
               emits         |-> 0,
               emitted       |-> [eventName  |-> "",
                                  subscribed |-> <<>>,
                                  invoked    |-> <<>>] ]

\* The listeners after handlers.push(handler) in on.
subscribe(listeners, eventName, handler) ==
    IF eventName \in DOMAIN listeners
    THEN [listeners EXCEPT ![eventName] = Append(@, handler)]
    ELSE listeners @@ (eventName :> <<handler>>)

On(eventName, kind) ==
    /\ bus.subscriptions < MaxHandlers
    /\ kind \in {"on", "throws"}
    /\ bus' = [bus EXCEPT
                  !.listeners = subscribe(@, eventName,
                                          Handler(bus.subscriptions + 1, kind)),
                  !.subscriptions = @ + 1]
    /\ UNCHANGED <<call, ret, db, req>>

Once(eventName) ==
    /\ bus.subscriptions < MaxHandlers
    /\ bus' = [bus EXCEPT
                  !.listeners = subscribe(@, eventName,
                                          Handler(bus.subscriptions + 1, "once")),
                  !.subscriptions = @ + 1]
    /\ UNCHANGED <<call, ret, db, req>>

\* A caller runs the unsubscribe function of a handler that is subscribed.
Unsubscribe(eventName) ==
    /\ eventName \in DOMAIN bus.listeners
    /\ \E i \in DOMAIN bus.listeners[eventName] :
          bus' = [bus EXCEPT !.listeners[eventName] =
                      unsubscribe(@, bus.listeners[eventName][i])]
    /\ UNCHANGED <<call, ret, db, req>>

Emit(eventName) ==
    /\ bus.emits < MaxEmits
    /\ LET history == pushHistory(bus.eventHistory, eventName) IN
       IF eventName \notin DOMAIN bus.listeners
       THEN bus' = [bus EXCEPT
                       !.eventHistory = history,
                       !.emits = @ + 1,
                       !.emitted = [eventName  |-> eventName,
                                    subscribed |-> <<>>,
                                    invoked    |-> <<>>]]
       ELSE LET handlers == bus.listeners[eventName]
                result   == dispatch(handlers, 1, <<>>)
            IN  bus' = [bus EXCEPT
                           !.eventHistory = history,
                           !.emits = @ + 1,
                           !.listeners[eventName] = result.handlers,
                           !.emitted = [eventName  |-> eventName,
                                        subscribed |-> handlers,
                                        invoked    |-> result.invoked]]
    /\ UNCHANGED <<call, ret, db, req>>

Clear ==
    /\ bus.listeners # NoListeners
    /\ bus' = [bus EXCEPT !.listeners = NoListeners]
    /\ UNCHANGED <<call, ret, db, req>>

BusNext ==
    \/ \E eventName \in EventNames, kind \in {"on", "throws"} :
           On(eventName, kind)
    \/ \E eventName \in EventNames : Once(eventName)
    \/ \E eventName \in EventNames : Unsubscribe(eventName)
    \/ \E eventName \in EventNames : Emit(eventName)
    \/ Clear

BusSpec == BusInit /\ [][BusNext]_vars

\* ------------------------------------------------- claims about the EventBus

\* C30: emit invokes every handler that is subscribed to the event when
\* emit is called exactly once, also when a handler of once removes itself
\* during the dispatch.
C30_EmitInvokesEverySubscribed ==
    \A k \in DOMAIN bus.emitted.subscribed :
        Cardinality({ j \in DOMAIN bus.emitted.invoked :
                        bus.emitted.invoked[j]
                            = bus.emitted.subscribed[k].id }) = 1

====
